---- MODULE Spec2Model ----
(***************************************************************************)
(* Model of the three interactive scripts of nova-canvas-image-generator:  *)
(*   image_generator_virtual_tryon.py       (script "tryon")               *)
(*   image_generator_virtual_tryon_room.py  (script "room")                *)
(*   image_generator_with_style.py          (script "style")               *)
(* One run of main() is one behaviour.  The user, the local disk, the      *)
(* remote generation service and the object store are the environment;     *)
(* what they answer is drawn from small sets inside the actions.           *)
(*                                                                         *)
(* Text is modelled as a sequence.  Base64 text is a sequence of alphabet  *)
(* positions 0..63, with Pad for '='; a larger number is a character       *)
(* outside the alphabet.  Other strings are sequences of tokens, "/"       *)
(* being a token.                                                          *)
(***************************************************************************)
EXTENDS Integers, Sequences, FiniteSets, TLC

\* ---------------------------------------------------------------- bounds
\* longest 'images' list the service answers with
MaxResults == 2
\* wall-clock seconds 0..MaxClock
MaxClock == 1
\* rejected menu entries before a valid one
MaxRetries == 1
\* existence checks answered 404 before the video is there
MaxAbsent == 2
\* times the object is gone between head_object and download
MaxVanish == 1

\* ------------------------------------------------------- program constants
NUMBER_OF_IMAGES == 3
SLEEP_SECONDS == 10

\* ------------------------------------------------------------ base64 text
Pad == 64

RECURSIVE SeqsUpTo(_, _)
SeqsUpTo(S, n) ==
    IF n = 0 THEN {<<>>}
    ELSE LET shorter == SeqsUpTo(S, n - 1)
         IN  shorter \cup {Append(s, x) : s \in {t \in shorter : Len(t) = n - 1}, x \in S}

\* base64.b64encode(data).decode('utf-8'): three bytes give four characters,
\* a tail of one or two bytes is padded with '='.
RECURSIVE b64encode(_)
b64encode(bytes) ==
    IF Len(bytes) = 0 THEN <<>>
    ELSE IF Len(bytes) = 1
    THEN << bytes[1] \div 4, (bytes[1] % 4) * 16, Pad, Pad >>
    ELSE IF Len(bytes) = 2
    THEN << bytes[1] \div 4,
            (bytes[1] % 4) * 16 + bytes[2] \div 16,
            (bytes[2] % 16) * 4,
            Pad >>
    ELSE << bytes[1] \div 4,
            (bytes[1] % 4) * 16 + bytes[2] \div 16,
            (bytes[2] % 16) * 4 + bytes[3] \div 64,
            bytes[3] % 64 >>
         \o b64encode(SubSeq(bytes, 4, Len(bytes)))

\* base64.b64decode(text) with validate=False (binascii.a2b_base64, lenient):
\* characters outside the alphabet are skipped, a completed pad sequence ends
\* the parse, a dangling quad is an error (binascii.Error).
RECURSIVE a2b(_, _, _, _, _, _)
a2b(text, i, quad_pos, leftchar, pads, out) ==
    IF i > Len(text)
    THEN [ok |-> quad_pos = 0, bytes |-> out]
    ELSE LET c == text[i] IN
         IF c = Pad
         THEN IF quad_pos >= 2 /\ quad_pos + pads + 1 >= 4
              THEN [ok |-> TRUE, bytes |-> out]
              ELSE a2b(text, i + 1, quad_pos, leftchar,
                       IF quad_pos >= 2 THEN pads + 1 ELSE pads, out)
         ELSE IF c > Pad
         THEN a2b(text, i + 1, quad_pos, leftchar, pads, out)
         ELSE IF quad_pos = 0
         THEN a2b(text, i + 1, 1, c, 0, out)
         ELSE IF quad_pos = 1
         THEN a2b(text, i + 1, 2, c % 16, 0, Append(out, leftchar * 4 + c \div 16))
         ELSE IF quad_pos = 2
         THEN a2b(text, i + 1, 3, c % 4, 0, Append(out, leftchar * 16 + c \div 4))
         ELSE a2b(text, i + 1, 0, 0, 0, Append(out, leftchar * 64 + c))

b64decode(text) == a2b(text, 1, 0, 0, 0, <<>>)

\* ------------------------------------------------------------ Python values
\* A Python name is unbound, bound to None, or bound to a value.
UnboundV == [st |-> "unbound", val |-> <<>>]
NoneV == [st |-> "none", val |-> <<>>]
Some(v) == [st |-> "some", val |-> v]

\* Python truthiness of a str or list valued name: None, '' and [] are falsy.
Truthy(o) == o.st = "some" /\ Len(o.val) > 0

NoErr == [where |-> "", type |-> ""]
Raised(w, t) == [where |-> w, type |-> t]

\* -------------------------------------------------------------- local disk
Unreadable == <<-1>>
Paths == {"", "missing.png", "locked.png", "person.png", "shirt.png"}
\* What person.png may hold (one content per base64 tail length, the empty
\* file included); shirt.png holds three bytes.
FileContents == {<<>>, <<0>>, <<137, 80>>}
ShirtBytes == <<255, 216, 255>>

\* os.path.exists(path)
exists(d, path) == path \in DOMAIN d

\* A check that forgets os.path.exists.
PathRejectedEmptyOnly(d, path) == path = ""

\* The value a Python `if not path or not os.path.exists(path)` rejects.
PathRejected(d, path) == path = "" \/ ~exists(d, path)

\* encode_image: the base64 text of the file, None when the read raises.
encode_image(d, path) ==
    IF exists(d, path) /\ d[path] # Unreadable
    THEN Some(b64encode(d[path]))
    ELSE NoneV

\* `if not person_image or not garment_image: return None`
PayloadMissing(p, g) == ~Truthy(p) \/ ~Truthy(g)

\* ------------------------------------------------------------------ menus
GarmentKeys == {"1", "2", "3", "4"}
garments(k) ==
    CASE k = "1" -> "UPPER_BODY"
      [] k = "2" -> "LOWER_BODY"
      [] k = "3" -> "FOOTWEAR"
      [] k = "4" -> "FULL_BODY"

StyleKeys == {"1", "2", "3", "4", "5", "6", "7", "8"}
styles(k) ==
    CASE k = "1" -> "3D_ANIMATED_FAMILY_FILM"
      [] k = "2" -> "DESIGN_SKETCH"
      [] k = "3" -> "FLAT_VECTOR_ILLUSTRATION"
      [] k = "4" -> "GRAPHIC_NOVEL_ILLUSTRATION"
      [] k = "5" -> "MAXIMALISM"
      [] k = "6" -> "MIDCENTURY_RETRO"
      [] k = "7" -> "PHOTOREALISM"
      [] k = "8" -> "SOFT_DIGITAL_PAINTING"

MenuEntries(keys) == keys \cup {"x"}

\* ------------------------------------------------- remote generation service
GoodA == b64encode(<<137, 80>>)
GoodB == b64encode(<<0>>)
BadPadding == <<0, 0, 0>>
Payloads == {GoodA, GoodB, <<>>, BadPadding}

\* What invoke_model answers: it raises, or the body parses to a dict with
\* or without an 'images' list.
Responses ==
    {[kind |-> "error", has_images |-> FALSE, images |-> <<>>],
     [kind |-> "ok", has_images |-> FALSE, images |-> <<>>]}
    \cup {[kind |-> "ok", has_images |-> TRUE, images |-> l] :
             l \in SeqsUpTo(Payloads, MaxResults)}

\* What is remembered of the answer: its kind, whether it had an 'images'
\* key, how many results it held and the first of them.
Seen(resp) ==
    [kind |-> resp.kind, has_images |-> resp.has_images, count |-> Len(resp.images),
     first |-> IF Len(resp.images) > 0 THEN resp.images[1] ELSE <<>>]

NoResponse == [kind |-> "none", has_images |-> FALSE, count |-> 0, first |-> <<>>]

\* An invoker whose except clause does not catch the KeyError of an absent
\* 'images' key.
SyncResultKeyError(resp, lenFirst, multi) ==
    IF resp.kind = "error"
    THEN [value |-> NoneV, said |-> {"gen_error"}, raised |-> NoErr]
    ELSE IF ~resp.has_images
    THEN [value |-> NoneV, said |-> {},
          raised |-> IF lenFirst THEN Raised("generate_virtual_tryon", "KeyError")
                     ELSE Raised("generate_image", "KeyError")]
    ELSE IF Len(resp.images) > 0
    THEN [value |-> IF multi THEN Some(resp.images) ELSE Some(resp.images[1]),
          said |-> {}, raised |-> NoErr]
    ELSE [value |-> NoneV, said |-> {"no_image"}, raised |-> NoErr]

\* An invoker that picks the last result of the list.
SyncResultLast(resp, lenFirst, multi) ==
    IF resp.kind = "error"
    THEN [value |-> NoneV, said |-> {"gen_error"}, raised |-> NoErr]
    ELSE IF ~resp.has_images
    THEN [value |-> NoneV,
          said |-> IF lenFirst THEN {"gen_error"} ELSE {"no_image"},
          raised |-> NoErr]
    ELSE IF Len(resp.images) > 0
    THEN [value |-> IF multi THEN Some(resp.images)
                    ELSE Some(resp.images[Len(resp.images)]),
          said |-> {}, raised |-> NoErr]
    ELSE [value |-> NoneV, said |-> {"no_image"}, raised |-> NoErr]

\* The try block of the invoker after the request is sent.  `lenFirst` is
\* the print(len(response_body['images'])) of the two try-on scripts, which
\* raises KeyError inside the try when the key is absent; `multi` is the room
\* script, which returns the whole list.  `except Exception` lets nothing out.
SyncResult(resp, lenFirst, multi) ==
    IF resp.kind = "error"
    THEN [value |-> NoneV, said |-> {"gen_error"}, raised |-> NoErr]
    ELSE IF ~resp.has_images
    THEN [value |-> NoneV,
          said |-> IF lenFirst THEN {"gen_error"} ELSE {"no_image"},
          raised |-> NoErr]
    ELSE IF Len(resp.images) > 0
    THEN [value |-> IF multi THEN Some(resp.images) ELSE Some(resp.images[1]),
          said |-> {}, raised |-> NoErr]
    ELSE [value |-> NoneV, said |-> {"no_image"}, raised |-> NoErr]

TryOnBody(src, ref, maskType, mask, n) ==
    [taskType |-> "VIRTUAL_TRY_ON", sourceImage |-> src, referenceImage |-> ref,
     maskType |-> maskType, mask |-> mask, numberOfImages |-> n]

TextImageBody(text, style) ==
    [taskType |-> "TEXT_IMAGE", text |-> text, style |-> style, numberOfImages |-> 1]

\* ------------------------------------------------------------- file names
\* f"{stem}_{timestamp}.{ext}" and f"{stem}_{timestamp}_{index}.{ext}"; the
\* timestamp is the wall clock cut to whole seconds; index -1: no index part.
Filename(stem, ts, index, ext) == [stem |-> stem, ts |-> ts, index |-> index, ext |-> ext]

ImageStem(s) == IF s = "style" THEN "generated_image" ELSE "virtual_tryon"

ImageFilename(s, ts) == Filename(ImageStem(s), ts, -1, "png")

\* A room file name that leaves the index out.
RoomFilenameNoIndex(ts, index) == Filename("virtual_tryon", ts, -1, "png")

RoomFilename(ts, index) == Filename("virtual_tryon", ts, index, "png")

VideoFilename(ts) == Filename("virtual_tryon_video", ts, -1, "mp4")

Names(log) == {log[i].name : i \in 1..Len(log)}

\* ------------------------------------------------------------------ state
VARIABLES
    script,          \* which of the three scripts runs
    pc,              \* position in main()
    err,             \* the exception that left main(), NoErr if none
    disk,            \* input files: path -> bytes, or Unreadable
    now,             \* wall clock, whole seconds
    prompts,         \* number of input() calls made
    retries,         \* number of menu entries rejected
    printed,         \* diagnostics printed
    encodes,         \* number of encode_image calls
    sent,            \* requests issued to the remote service, in order
    response,        \* Seen(what invoke_model answered), NoResponse before
    person_image,    \* first input: person_image / room_image / the style script's prompt
    garment_image,   \* second path entered (furniture_image)
    mask,            \* garment_class / prompt_text / style
    image_data,      \* what the invoker returned (images_data in the room script)
    index,           \* enumerate() position of save_and_open_images
    filepath,        \* main's filepath
    written,         \* files written to the working directory, in order
    viewer,          \* files the viewer was launched on, in order
    bucket_list,           \* list_s3_buckets() result
    selected_s3_filepath,  \* the s3:// URI chosen
    invocation_arn,        \* what generate_video returned
    job_no,                \* invocation_arn.split('/')[1]
    bucket_name,           \* the poller's bucket
    key,                   \* the poller's key
    job,                   \* the service's job: where and when its output appears
    pollLog,               \* what the poller did, in order
    video_filename         \* what the poller returned

syncVars == <<script, pc, err, disk, now, prompts, retries, printed, encodes, sent,
              response, person_image, garment_image, mask, image_data, index,
              filepath, written, viewer>>

videoVars == <<bucket_list, selected_s3_filepath, invocation_arn, job_no, bucket_name,
               key, job, pollLog, video_filename>>

vars == <<syncVars, videoVars>>

syncVars_but_pc == <<script, err, disk, now, prompts, retries, printed, encodes, sent,
                     response, person_image, garment_image, mask, image_data, index,
                     filepath, written, viewer>>

Scripts == {"tryon", "room", "style"}

\* The clock read by datetime.now(): time may have passed since the last read.
ClockReads == (now..MaxClock) \cup {now}

InitSync ==
    /\ script \in Scripts
    /\ pc = IF script = "style" THEN "prompt" ELSE "person"
    /\ err = NoErr
    /\ \E c \in FileContents :
         disk = [p \in {"locked.png", "person.png", "shirt.png"} |->
                   IF p = "locked.png" THEN Unreadable
                   ELSE IF p = "person.png" THEN c ELSE ShirtBytes]
    /\ now = 0
    /\ prompts = 0
    /\ retries = 0
    /\ printed = {}
    /\ encodes = 0
    /\ sent = <<>>
    /\ response = NoResponse
    /\ person_image = ""
    /\ garment_image = ""
    /\ mask = ""
    /\ image_data = UnboundV
    /\ index = 0
    /\ filepath = UnboundV
    /\ written = <<>>
    /\ viewer = <<>>

\* main(): the first path is asked for and checked.
AskPersonImage ==
    /\ pc = "person"
    /\ \E path \in Paths :
         /\ person_image' = path
         /\ prompts' = prompts + 1
         /\ IF PathRejected(disk, path)
            THEN /\ printed' = printed \cup {"person_not_found"}
                 /\ pc' = "done"
            ELSE /\ printed' = printed
                 /\ pc' = "garment"
    /\ UNCHANGED videoVars
    /\ UNCHANGED <<script, err, disk, now, retries, encodes, sent, response,
                   garment_image, mask, image_data, index, filepath, written, viewer>>

\* main(): the second path is asked for and checked.
AskGarmentImage ==
    /\ pc = "garment"
    /\ \E path \in Paths :
         /\ garment_image' = path
         /\ prompts' = prompts + 1
         /\ IF PathRejected(disk, path)
            THEN /\ printed' = printed \cup {"garment_not_found"}
                 /\ pc' = "done"
            ELSE /\ printed' = printed
                 /\ pc' = IF script = "tryon" THEN "class" ELSE "prompt_text"
    /\ UNCHANGED videoVars
    /\ UNCHANGED <<script, err, disk, now, retries, encodes, sent, response,
                   person_image, mask, image_data, index, filepath, written, viewer>>

\* get_garment_class(): one pass of its while loop.
GetGarmentClass ==
    /\ pc = "class"
    /\ \E entry \in MenuEntries(GarmentKeys) :
         /\ prompts' = prompts + 1
         /\ IF entry \in GarmentKeys
            THEN /\ mask' = garments(entry)
                 /\ pc' = "generate"
                 /\ UNCHANGED <<retries, printed>>
            ELSE /\ retries < MaxRetries
                 /\ retries' = retries + 1
                 /\ printed' = printed \cup {"invalid_choice"}
                 /\ UNCHANGED <<mask, pc>>
    /\ UNCHANGED videoVars
    /\ UNCHANGED <<script, err, disk, now, encodes, sent, response, person_image,
                   garment_image, image_data, index, filepath, written, viewer>>

\* Room script: the mask prompt, "replace sofa" when left blank.
AskPromptText ==
    /\ pc = "prompt_text"
    /\ \E text \in {"", "replace chair"} :
         mask' = IF text = "" THEN "replace sofa" ELSE text
    /\ prompts' = prompts + 1
    /\ pc' = "generate"
    /\ UNCHANGED videoVars
    /\ UNCHANGED <<script, err, disk, now, retries, printed, encodes, sent, response,
                   person_image, garment_image, image_data, index, filepath, written,
                   viewer>>

\* Style script: the image prompt, refused when empty.
AskPrompt ==
    /\ pc = "prompt"
    /\ \E text \in {"", "a cat"} :
         /\ person_image' = text
         /\ IF text = ""
            THEN /\ printed' = printed \cup {"prompt_empty"}
                 /\ pc' = "done"
            ELSE /\ printed' = printed
                 /\ pc' = "style"
    /\ prompts' = prompts + 1
    /\ UNCHANGED videoVars
    /\ UNCHANGED <<script, err, disk, now, retries, encodes, sent, response,
                   garment_image, mask, image_data, index, filepath, written, viewer>>

\* get_visual_style(): one pass of its while loop.
GetVisualStyle ==
    /\ pc = "style"
    /\ \E entry \in MenuEntries(StyleKeys) :
         /\ prompts' = prompts + 1
         /\ IF entry \in StyleKeys
            THEN /\ mask' = styles(entry)
                 /\ pc' = "generate"
                 /\ UNCHANGED <<retries, printed>>
            ELSE /\ retries < MaxRetries
                 /\ retries' = retries + 1
                 /\ printed' = printed \cup {"invalid_choice"}
                 /\ UNCHANGED <<mask, pc>>
    /\ UNCHANGED videoVars
    /\ UNCHANGED <<script, err, disk, now, encodes, sent, response, person_image,
                   garment_image, image_data, index, filepath, written, viewer>>

\* Where main() goes once the invoker has returned `value`.
AfterInvoker(value) ==
    IF Truthy(value) THEN (IF script = "room" THEN "save_loop" ELSE "save")
    ELSE IF script = "tryon" THEN "ask_video"
    ELSE "done"

\* main() calls the invoker and branches on `if image_data:`.
Invoked(body, resp, r) ==
    /\ sent' = Append(sent, body)
    /\ response' = Seen(resp)
    /\ IF r.raised # NoErr
       THEN /\ err' = r.raised
            /\ pc' = "crashed"
            /\ UNCHANGED <<image_data, printed>>
       ELSE /\ err' = err
            /\ image_data' = r.value
            /\ printed' = printed \cup r.said
                              \cup (IF Truthy(r.value) THEN {} ELSE {"gen_failed"})
            /\ pc' = AfterInvoker(r.value)

\* generate_virtual_tryon of the two try-on scripts, and main()'s branch on
\* its result.
GenerateVirtualTryon ==
    /\ pc = "generate"
    /\ script \in {"tryon", "room"}
    /\ encodes' = encodes + 2
    /\ LET p == encode_image(disk, person_image)
           g == encode_image(disk, garment_image)
           readErrors == IF p.st = "none" \/ g.st = "none" THEN {"read_error"} ELSE {}
       IN  IF PayloadMissing(p, g)
           THEN /\ image_data' = NoneV
                /\ printed' = printed \cup readErrors \cup {"gen_failed"}
                /\ pc' = AfterInvoker(NoneV)
                /\ UNCHANGED <<sent, response, err>>
           ELSE \E resp \in Responses :
                  Invoked(IF script = "tryon"
                          THEN TryOnBody(p.val, g.val, "GARMENT", mask, 1)
                          ELSE TryOnBody(p.val, g.val, "PROMPT", mask, NUMBER_OF_IMAGES),
                          resp,
                          SyncResult(resp, TRUE, script = "room"))
    /\ UNCHANGED videoVars
    /\ UNCHANGED <<script, disk, now, prompts, retries, person_image, garment_image,
                   mask, index, filepath, written, viewer>>

\* generate_image of the style script, and main()'s branch on its result.
GenerateImage ==
    /\ pc = "generate"
    /\ script = "style"
    /\ \E resp \in Responses :
         Invoked(TextImageBody(person_image, mask), resp, SyncResult(resp, FALSE, FALSE))
    /\ UNCHANGED videoVars
    /\ UNCHANGED <<script, disk, now, prompts, retries, encodes, person_image,
                   garment_image, mask, index, filepath, written, viewer>>

\* The body of the try block of save_and_open_image for one result: decode,
\* name, write, launch the viewer.  `fault` is what the disk or the launcher
\* refuses; a raise anywhere in the block leaves by the except clause.
SaveOne(data, name, fault) ==
    LET dec == b64decode(data) IN
    IF ~dec.ok \/ fault = "write"
    THEN [ok |-> FALSE, files |-> <<>>, opened |-> <<>>]
    ELSE IF fault = "open"
    THEN [ok |-> FALSE, files |-> <<[name |-> name, content |-> dec.bytes]>>, opened |-> <<>>]
    ELSE [ok |-> TRUE, files |-> <<[name |-> name, content |-> dec.bytes]>>,
          opened |-> <<name>>]

SaveFaults == {"none", "write", "open"}

\* save_and_open_image (tryon and style scripts), called by main() when
\* image_data is truthy.
SaveAndOpenImage ==
    /\ pc = "save"
    /\ \E t \in ClockReads, fault \in SaveFaults :
         LET r == SaveOne(image_data.val, ImageFilename(script, t), fault) IN
         /\ now' = t
         /\ written' = written \o r.files
         /\ viewer' = viewer \o r.opened
         /\ filepath' = IF r.ok THEN Some(ImageFilename(script, t)) ELSE NoneV
         /\ printed' = IF r.ok THEN printed ELSE printed \cup {"save_error"}
    /\ pc' = IF script = "tryon" THEN "ask_video" ELSE "done"
    /\ UNCHANGED videoVars
    /\ UNCHANGED <<script, err, disk, prompts, retries, encodes, sent, response,
                   person_image, garment_image, mask, image_data, index>>

\* save_and_open_images (room script): one pass of its for loop; the first
\* raise returns from the function.
SaveAndOpenImages ==
    /\ pc = "save_loop"
    /\ \E t \in ClockReads, fault \in SaveFaults :
         LET r == SaveOne(image_data.val[index + 1], RoomFilename(t, index), fault) IN
         /\ now' = t
         /\ written' = written \o r.files
         /\ viewer' = viewer \o r.opened
         /\ printed' = IF r.ok THEN printed ELSE printed \cup {"save_error"}
         /\ index' = IF r.ok THEN index + 1 ELSE index
         /\ pc' = IF r.ok /\ index + 1 < Len(image_data.val) THEN "save_loop" ELSE "done"
    /\ UNCHANGED videoVars
    /\ UNCHANGED <<script, err, disk, prompts, retries, encodes, sent, response,
                   person_image, garment_image, mask, image_data, filepath>>

\* ------------------------------------------------- asynchronous video path
Buckets == <<"media", "scratch">>

S3Uri(name) == <<"s3://", name>>

\* list_s3_buckets(): ordinal and s3:// URI per bucket; [] with a printed
\* diagnostic when listing raises.
BucketInfo(names) ==
    [i \in 1..Len(names) |-> [ordinal |-> i, s3_filepath |-> S3Uri(names[i])]]

\* s3_bucket.replace('s3://', '')
StripScheme(uri) == SelectSeq(uri, LAMBDA tok : tok # "s3://")

\* str.split('/'): the segments between the separators.
RECURSIVE SplitFrom(_, _, _)
SplitFrom(str, i, cur) ==
    IF i > Len(str) THEN <<cur>>
    ELSE IF str[i] = "/" THEN <<cur>> \o SplitFrom(str, i + 1, <<>>)
    ELSE SplitFrom(str, i + 1, Append(cur, str[i]))

split(str) == SplitFrom(str, 1, <<>>)

\* A job number taken from the wrong side of the separator.
JobNoFirst(arn) == split(arn)[1]

\* job_no = invocation_arn.split('/')[1]
JobNo(arn) == split(arn)[2]

\* key = f"{job_no}/output.mp4"
OutputKey(jobNo) == jobNo \o <<"/", "output.mp4">>

\* The service side: the ARN it hands out for a job and where it stores the
\* job's output.
JobIds == {"k3j9", "p0q2"}
Arn(id) == <<"arn:aws:bedrock:us-east-1:111122223333:async-invoke", "/", id>>
NoJob == [bucket |-> <<>>, key |-> <<>>, absent |-> 0, heads |-> 0, vanished |-> 0]
NewJob(uri, id, n) ==
    [bucket |-> <<uri[2]>>, key |-> <<id, "/", "output.mp4">>, absent |-> n,
     heads |-> 0, vanished |-> 0]
VideoBytes == <<0, 0, 0, 24>>

\* int(selected_ordinal): the number, or ValueError (-1 stands for the raise;
\* the prompt offers no negative number here).
EntryInts == [e \in {"0", "1", "2", "3"} |->
                 CASE e = "0" -> 0 [] e = "1" -> 1 [] e = "2" -> 2 [] e = "3" -> 3]

TextVideoBody(image, uri) ==
    [taskType |-> "TEXT_VIDEO", image |-> image, s3Uri |-> uri]

\* The bytes open(image_path, "rb") reads: the last write to that name.
RECURSIVE FileBytes(_, _)
FileBytes(log, name) ==
    IF Len(log) = 0 THEN Unreadable
    ELSE IF log[Len(log)].name = name THEN log[Len(log)].content
    ELSE FileBytes(SubSeq(log, 1, Len(log) - 1), name)

InitVideo ==
    /\ bucket_list = <<>>
    /\ selected_s3_filepath = <<>>
    /\ invocation_arn = UnboundV
    /\ job_no = <<>>
    /\ bucket_name = <<>>
    /\ key = <<>>
    /\ job = NoJob
    /\ pollLog = <<>>
    /\ video_filename = UnboundV

Init == InitSync /\ InitVideo

\* main(): "Do you want to create a video from this image? (Y/N)"
AskDoVideo ==
    /\ pc = "ask_video"
    /\ prompts' = prompts + 1
    /\ \E do_video \in {"y", "yes", "ok", "n", ""} :
         pc' = IF do_video \in {"y", "yes", "ok"} THEN "video_prompt" ELSE "done"
    /\ UNCHANGED videoVars
    /\ UNCHANGED <<script, err, disk, now, retries, printed, encodes, sent, response,
                   person_image, garment_image, mask, image_data, index, filepath,
                   written, viewer>>

\* main(): the motion prompt is asked for, then the buckets are listed.
AskVideoPrompt ==
    /\ pc = "video_prompt"
    /\ prompts' = prompts + 1
    /\ \E listing \in {"error", "empty", "buckets"} :
         /\ bucket_list' = IF listing = "buckets" THEN BucketInfo(Buckets) ELSE <<>>
         /\ printed' = printed
                         \cup (IF listing = "error" THEN {"list_error"} ELSE {})
                         \cup (IF listing = "buckets" THEN {} ELSE {"no_buckets"})
         /\ pc' = IF listing = "buckets" THEN "select_bucket" ELSE "done"
    /\ UNCHANGED <<selected_s3_filepath, invocation_arn, job_no, bucket_name, key, job,
                   pollLog, video_filename>>
    /\ UNCHANGED <<script, err, disk, now, retries, encodes, sent, response,
                   person_image, garment_image, mask, image_data, index, filepath,
                   written, viewer>>

\* main(): one pass of the bucket selection loop.
SelectBucket ==
    /\ pc = "select_bucket"
    /\ prompts' = prompts + 1
    /\ \E entry \in DOMAIN EntryInts \cup {"x"} :
         LET selected_index == IF entry = "x" THEN -1 ELSE EntryInts[entry] - 1 IN
         IF entry # "x" /\ 0 <= selected_index /\ selected_index < Len(bucket_list)
         THEN /\ selected_s3_filepath' = bucket_list[selected_index + 1].s3_filepath
              /\ pc' = "gen_video"
              /\ UNCHANGED <<retries, printed>>
         ELSE /\ retries < MaxRetries
              /\ retries' = retries + 1
              /\ printed' = printed \cup {"invalid_choice"}
              /\ UNCHANGED <<selected_s3_filepath, pc>>
    /\ UNCHANGED <<bucket_list, invocation_arn, job_no, bucket_name, key, job, pollLog,
                   video_filename>>
    /\ UNCHANGED <<script, err, disk, now, encodes, sent, response, person_image,
                   garment_image, mask, image_data, index, filepath, written, viewer>>

\* main() calls generate_video(filepath, prompt, selected_s3_filepath) and
\* branches on `if invocation_arn:`.  Reading an unbound filepath raises in
\* main(); open(None, "rb") raises in generate_video before its try block.
\* The random seed of the request is left out of the body.
GenerateVideo ==
    /\ pc = "gen_video"
    /\ \/ /\ filepath.st # "some"
          /\ err' = IF filepath.st = "unbound"
                    THEN Raised("main", "UnboundLocalError")
                    ELSE Raised("generate_video", "TypeError")
          /\ pc' = "crashed"
          /\ UNCHANGED <<sent, printed, invocation_arn, job_no, job>>
       \/ /\ filepath.st = "some"
          /\ sent' = Append(sent, TextVideoBody(b64encode(FileBytes(written, filepath.val)),
                                                selected_s3_filepath))
          /\ \/ /\ invocation_arn' = NoneV
                /\ printed' = printed \cup {"video_start_error", "video_failed"}
                /\ pc' = "done"
                /\ UNCHANGED <<job_no, job>>
             \/ \E id \in JobIds, n \in 0..MaxAbsent :
                   /\ invocation_arn' = Some(Arn(id))
                   /\ job' = NewJob(selected_s3_filepath, id, n)
                   /\ job_no' = JobNo(Arn(id))
                   /\ pc' = "start_poll"
                   /\ printed' = printed
          /\ err' = err
    /\ UNCHANGED <<bucket_list, selected_s3_filepath, bucket_name, key, pollLog,
                   video_filename>>
    /\ UNCHANGED <<script, disk, now, prompts, retries, encodes, response, person_image,
                   garment_image, mask, image_data, index, filepath, written, viewer>>

\* check_and_download_video up to its loop: the bucket and the key it polls.
StartPoller ==
    /\ pc = "start_poll"
    /\ bucket_name' = StripScheme(selected_s3_filepath)
    /\ key' = OutputKey(job_no)
    /\ pc' = "poll"
    /\ UNCHANGED <<bucket_list, selected_s3_filepath, invocation_arn, job_no, job, pollLog,
                   video_filename>>
    /\ UNCHANGED syncVars_but_pc

\* The object store: head_object on (bucket, key) finds the job's output
\* once `absent` earlier checks of that key were answered 404.
StoreHead(j, b, k) ==
    IF j.bucket = b /\ j.key = k /\ j.heads >= j.absent THEN "ok" ELSE "404"

Ev(op, res) == [op |-> op, res |-> res]

HeadCalls(log) == Cardinality({i \in 1..Len(log) : log[i].op = "head"})

\* A poller that compares with get_object's code instead of head_object's.
RetryableNoSuchKey(code) == code = "NoSuchKey"

\* A poller that retries on every ClientError.
RetryableAny(code) == TRUE

\* `if e.response['Error']['Code'] == '404'`
Retryable(code) == code = "404"

\* What the poller does after a pass of its try block ended with `code`:
\* "ok", a ClientError code, or "exc" for an exception that is no ClientError.
AfterPass(events, code, t, name) ==
    IF code = "ok"
    THEN /\ pollLog' = pollLog \o events
         /\ written' = Append(written, [name |-> name, content |-> VideoBytes])
         /\ video_filename' = Some(name)
         /\ now' = t
         /\ pc' = "open_video"
         /\ UNCHANGED <<printed, err>>
    ELSE IF code = "exc"
    THEN /\ pollLog' = pollLog \o events
         /\ err' = Raised("check_and_download_video", "BotoCoreError")
         /\ now' = t
         /\ pc' = "crashed"
         /\ UNCHANGED <<printed, written, video_filename>>
    ELSE IF Retryable(code)
    THEN /\ pollLog' = pollLog \o events \o <<Ev("sleep", "10s")>>
         /\ now' = t + SLEEP_SECONDS
         /\ UNCHANGED <<pc, printed, err, written, video_filename>>
    ELSE /\ pollLog' = pollLog \o events
         /\ printed' = printed \cup {"poll_fatal"}
         /\ video_filename' = NoneV
         /\ now' = t
         /\ pc' = "open_video"
         /\ UNCHANGED <<err, written>>

\* check_and_download_video: one pass of `while True`.
PollIteration ==
    /\ pc = "poll"
    /\ HeadCalls(pollLog) <= MaxAbsent + MaxVanish
    /\ \/ \E code \in {"403", "exc"} :
            /\ AfterPass(<<Ev("head", code)>>, code, now, VideoFilename(now))
            /\ job' = job
       \/ /\ StoreHead(job, bucket_name, key) = "404"
          /\ AfterPass(<<Ev("head", "404")>>, "404", now, VideoFilename(now))
          /\ job' = [job EXCEPT !.heads = @ + 1]
       \/ /\ StoreHead(job, bucket_name, key) = "ok"
          /\ \E t \in ClockReads, code \in {"ok", "404", "403", "exc"} :
               /\ code = "404" => job.vanished < MaxVanish
               /\ AfterPass(<<Ev("head", "ok"), Ev("download", code)>>, code, t,
                            VideoFilename(t))
               /\ job' = [job EXCEPT !.heads = @ + 1,
                                     !.vanished = IF code = "404" THEN @ + 1 ELSE @]
    /\ UNCHANGED <<bucket_list, selected_s3_filepath, invocation_arn, job_no, bucket_name,
                   key>>
    /\ UNCHANGED <<script, disk, prompts, retries, encodes, sent, response, person_image,
                   garment_image, mask, image_data, index, filepath, viewer>>

\* main(): subprocess.run(['open', video_filename]); a None argument or a
\* missing launcher raises in main().
OpenVideo ==
    /\ pc = "open_video"
    /\ \/ /\ video_filename.st # "some"
          /\ err' = Raised("main", "TypeError")
          /\ pc' = "crashed"
          /\ viewer' = viewer
       \/ /\ video_filename.st = "some"
          /\ \/ /\ viewer' = Append(viewer, video_filename.val)
                /\ pc' = "done"
                /\ err' = err
             \/ /\ err' = Raised("main", "FileNotFoundError")
                /\ pc' = "crashed"
                /\ viewer' = viewer
    /\ UNCHANGED videoVars
    /\ UNCHANGED <<script, disk, now, prompts, retries, printed, encodes, sent, response,
                   person_image, garment_image, mask, image_data, index, filepath,
                   written>>

Next ==
    \/ AskPersonImage
    \/ AskGarmentImage
    \/ GetGarmentClass
    \/ AskPromptText
    \/ AskPrompt
    \/ GetVisualStyle
    \/ GenerateVirtualTryon
    \/ GenerateImage
    \/ SaveAndOpenImage
    \/ SaveAndOpenImages
    \/ AskDoVideo
    \/ AskVideoPrompt
    \/ SelectBucket
    \/ GenerateVideo
    \/ StartPoller
    \/ PollIteration
    \/ OpenVideo

Spec == Init /\ [][Next]_vars

\* ================================================================= claims

\* The poller has left its loop.
PollerLeft == pollLog # <<>> /\ pc # "poll"

\* The store answered every call from its own state and nothing failed: no
\* error but the 404 of a check made too early.
FaultFree(log) ==
    \A i \in 1..Len(log) :
        \/ log[i].op = "sleep"
        \/ log[i].res = "ok"
        \/ log[i].op = "head" /\ log[i].res = "404"

\* n not-found checks, each followed by one sleep, then the check that
\* succeeds and one download.
RECURSIVE ExpectedPolls(_)
ExpectedPolls(n) ==
    IF n = 0 THEN <<Ev("head", "ok"), Ev("download", "ok")>>
    ELSE <<Ev("head", "404"), Ev("sleep", "10s")>> \o ExpectedPolls(n - 1)

VideoFiles == SelectSeq(written, LAMBDA f : f.name.ext = "mp4")

\* C1: when the existence check is answered not-found N times and then
\* succeeds, and the download succeeds, the poller made exactly N not-found
\* checks, slept once (10 seconds) after each of them and at no other time,
\* downloaded once, and returned the timestamped local file name it
\* downloaded to.
C1_PollsExactlyNTimes ==
    (PollerLeft /\ FaultFree(pollLog)) =>
        /\ pollLog = ExpectedPolls(job.absent)
        /\ video_filename.st = "some"
        /\ video_filename.val.stem = "virtual_tryon_video"
        /\ video_filename.val.ext = "mp4"
        /\ VideoFiles = <<[name |-> video_filename.val, content |-> VideoBytes]>>
        /\ err.where # "check_and_download_video"
        /\ now >= job.absent * SLEEP_SECONDS
        /\ now <= job.absent * SLEEP_SECONDS + MaxClock

C1_Witness ==
    /\ PollerLeft
    /\ FaultFree(pollLog)
    /\ job.absent = 2
    /\ video_filename.st = "some"
    /\ pc = "done"

\* C2: a ClientError whose code is not '404' ends the poller at once: it is
\* the last thing in the poller's log (no sleep, check or download follows),
\* the poller returned None and printed its diagnostic, whatever the number
\* of not-found checks before it.
C2_FatalErrorStopsAtOnce ==
    \A i \in 1..Len(pollLog) :
        pollLog[i].res = "403" =>
            /\ i = Len(pollLog)
            /\ pc \in {"open_video", "crashed"}
            /\ video_filename.st = "none"
            /\ "poll_fatal" \in printed
            /\ VideoFiles = <<>>
            /\ err.where # "check_and_download_video"

C2_Witness ==
    /\ Len(pollLog) >= 3
    /\ pollLog[1] = Ev("head", "404")
    /\ pollLog[Len(pollLog)].res = "403"
    /\ video_filename.st = "none"

\* C3: the poller leaves its loop only by "found" (path returned) or by
\* "fatal error" (None returned); no failure of the check or of the download
\* leaves it by an exception reaching the caller.
C3_OnlyFoundOrFatal ==
    PollerLeft =>
        \/ /\ video_filename.st = "some"
           /\ pollLog[Len(pollLog)] = Ev("download", "ok")
        \/ /\ video_filename.st = "none"
           /\ pollLog[Len(pollLog)].res = "403"

\* The synchronous answer parsed, with no 'images' key or an empty list.
EmptyAnswer ==
    /\ response.kind = "ok"
    /\ ~response.has_images \/ response.count = 0

\* C4: in all three scripts, an answer with an absent or empty 'images'
\* list makes the invoker return None without raising, and the run then
\* writes no file and launches no viewer.
C4_NoResultReturnsNone ==
    EmptyAnswer =>
        /\ image_data.st = "none"
        /\ err.where \notin {"generate_virtual_tryon", "generate_image"}
        /\ written = <<>>
        /\ viewer = <<>>

C4_Witness ==
    /\ EmptyAnswer
    /\ ~response.has_images
    /\ script = "tryon"
    /\ pc = "crashed"

FailureTags ==
    {"person_not_found", "garment_not_found", "prompt_empty", "read_error", "gen_error",
     "no_image", "gen_failed", "save_error", "list_error", "no_buckets",
     "video_start_error", "video_failed", "poll_fatal"}

FailureReported == printed \cap FailureTags # {}

\* C5: once a failure has been reported the run performs no later step: no
\* further prompt, no further remote request, no file write and no viewer
\* launch.
C5_FailureIsTerminal ==
    [][FailureReported => UNCHANGED <<prompts, sent, written, viewer>>]_vars

\* C6: in the two try-on scripts a first or second path that is empty or
\* names no existing file ends the run with a 'not found' message, before any
\* further question, encoding, remote request or file write; a request is
\* sent only when both paths named existing files.
C6_PathsCheckedFirst ==
    script \in {"tryon", "room"} =>
        /\ (pc # "person" /\ (person_image = "" \/ person_image \notin DOMAIN disk)) =>
              /\ pc = "done"
              /\ "person_not_found" \in printed
              /\ prompts = 1
              /\ encodes = 0 /\ sent = <<>> /\ written = <<>>
        /\ (/\ pc \notin {"person", "garment"}
            /\ person_image \in DOMAIN disk
            /\ (garment_image = "" \/ garment_image \notin DOMAIN disk)) =>
              /\ pc = "done"
              /\ "garment_not_found" \in printed
              /\ prompts = 2
              /\ encodes = 0 /\ sent = <<>> /\ written = <<>>
        /\ sent # <<>> => person_image \in DOMAIN disk /\ garment_image \in DOMAIN disk

C6_Witness ==
    /\ script = "room"
    /\ pc = "done"
    /\ person_image = "person.png"
    /\ garment_image = "missing.png"
    /\ prompts = 2

ImageFiles == SelectSeq(written, LAMBDA f : f.name.ext = "png")

ImageViews == SelectSeq(viewer, LAMBDA n : n.ext = "png")

GarmentClasses == {"UPPER_BODY", "LOWER_BODY", "FOOTWEAR", "FULL_BODY"}

\* save_and_open_image has not returned yet.
BeforeSaved == pc \in {"person", "garment", "class", "generate", "save"}

\* The first request carries the encodings of the two files and the class.
RequestAsEntered ==
    sent # <<>> =>
        /\ mask \in GarmentClasses
        /\ sent[1] = [taskType |-> "VIRTUAL_TRY_ON",
                      sourceImage |-> b64encode(disk[person_image]),
                      referenceImage |-> b64encode(disk[garment_image]),
                      maskType |-> "GARMENT", mask |-> mask, numberOfImages |-> 1]

\* One file virtual_tryon_<timestamp>.png holding the decoded first result,
\* and the viewer launched on it.
FirstResultSaved ==
    /\ Len(ImageFiles) = 1
    /\ ImageFiles[1].name.stem = "virtual_tryon"
    /\ ImageFiles[1].name.index = -1
    /\ ImageFiles[1].content = b64decode(response.first).bytes
    /\ ImageViews = <<ImageFiles[1].name>>

\* The viewer is launched on written files only, and at most one image is
\* written.
ViewedAfterWritten ==
    /\ \A i \in 1..Len(viewer) : viewer[i] \in Names(written)
    /\ Len(ImageFiles) <= 1

C8_RoomFilesDistinct ==
    script = "room" =>
        /\ \A i, j \in 1..Len(written) : i # j => written[i].name # written[j].name
        /\ (pc = "done" /\ Truthy(image_data) /\ "save_error" \notin printed) =>
              /\ Len(written) = Len(image_data.val)
              /\ \A i \in 1..Len(written) :
                    /\ written[i].content = b64decode(image_data.val[i]).bytes
                    /\ written[i].name.index = i - 1
                    /\ written[i].name.stem = "virtual_tryon"
              /\ viewer = [i \in 1..Len(written) |-> written[i].name]

C8_Witness ==
    /\ script = "room"
    /\ pc = "done"
    /\ "save_error" \notin printed
    /\ Len(written) >= 2
    /\ written[1].name.ts = written[2].name.ts
    /\ written[1].content # written[2].content

Readable(path) == path \in DOMAIN disk /\ disk[path] # Unreadable

RoundTrips(path) ==
    LET e == encode_image(disk, path) IN
    e.st = "some" /\ b64decode(e.val) = [ok |-> TRUE, bytes |-> disk[path]]

\* C9: for every readable file, the empty one included, encode_image gives
\* text that the persister's decoding turns back into the file's bytes, and
\* the invoker takes that text for a present payload: two readable files
\* always lead to a request.
C9_EncodingIsPresentPayload ==
    (/\ script \in {"tryon", "room"}
     /\ pc \notin {"person", "garment", "class", "prompt_text", "generate"}
     /\ Readable(person_image)
     /\ Readable(garment_image)) =>
        /\ RoundTrips(person_image)
        /\ RoundTrips(garment_image)
        /\ sent # <<>>

\* C10: on the asynchronous path the poller is set up and polls only after
\* a handle was received; its job number is the part of the handle after
\* '/', its bucket is the one the submission named, its key is
\* '{job_id}/output.mp4', which is where the service puts the output; the
\* video is opened only after the poller returned; a failed submission
\* starts no poller.
C10_AsyncOrder ==
    /\ (pc \in {"start_poll", "poll", "open_video"} \/ pollLog # <<>>) =>
          /\ invocation_arn.st = "some"
          /\ sent[Len(sent)].taskType = "TEXT_VIDEO"
          /\ sent[Len(sent)].s3Uri = selected_s3_filepath
          /\ job_no = SubSeq(invocation_arn.val, 3, Len(invocation_arn.val))
    /\ (pc \in {"poll", "open_video"} \/ pollLog # <<>>) =>
          /\ <<"s3://">> \o bucket_name = selected_s3_filepath
          /\ key = job_no \o <<"/", "output.mp4">>
          /\ bucket_name = job.bucket
          /\ key = job.key
    /\ pc = "open_video" => video_filename.st # "unbound" /\ pollLog # <<>>
    /\ \A i \in 1..Len(viewer) :
          viewer[i].ext = "mp4" =>
              /\ video_filename = Some(viewer[i])
              /\ pollLog[Len(pollLog)] = Ev("download", "ok")
    /\ invocation_arn.st # "some" =>
          /\ pollLog = <<>>
          /\ key = <<>>
          /\ pc \notin {"start_poll", "poll", "open_video"}

C10_Witness ==
    /\ pc = "done"
    /\ Len(viewer) = 2
    /\ viewer[2].ext = "mp4"
    /\ pollLog[1] = Ev("head", "404")
    /\ selected_s3_filepath = S3Uri("scratch")

\* The last request is the video request built from main()'s filepath.
VideoRequested == sent # <<>> /\ sent[Len(sent)].taskType = "TEXT_VIDEO"

\* C11: in the garment script the viewer and the video request are only
\* given the path of a file this run wrote: generate_video is never reached
\* with filepath undefined or None, the viewer is never handed the None of a
\* poller that ended on a fatal error, every file viewed was written before,
\* and a video request carries the bytes of the image file that was saved.
C11_OnlyExistingArtifacts ==
    /\ err # Raised("main", "UnboundLocalError")
    /\ err # Raised("generate_video", "TypeError")
    /\ err # Raised("main", "TypeError")
    /\ \A i \in 1..Len(viewer) : viewer[i] \in Names(written)
    /\ VideoRequested =>
          /\ filepath.st = "some"
          /\ filepath.val \in Names(ImageFiles)
          /\ sent[Len(sent)].image = b64encode(FileBytes(written, filepath.val))

\* The three ways the code hands over a path that is no file of this run.
C11_UndefinedPathReached == err = Raised("main", "UnboundLocalError")

C11_NonePathReached == err = Raised("generate_video", "TypeError")

C11_NoneVideoOpened == err = Raised("main", "TypeError")

====
